---- MODULE Spec2Model ----
(***************************************************************************)
(* The bytecode compiler of src/checker/compiler.h: class Program (frame    *)
(* tree, symbols, subroutine registry, storage pool, emitter, build) and    *)
(* class Compiler (the recursive walker handle).                            *)
(*                                                                          *)
(* Spec runs compileSourceFile on every bounded source file, one case of    *)
(* handle at a time, and then build() on the program it returned.           *)
(***************************************************************************)
EXTENDS Integers, Sequences, FiniteSets, TLC

(***************************************************************************)
(* Bounds of the model.                                                     *)
(***************************************************************************)
\* statements of one source file
MaxStatements == 2
\* values 0..MaxGarbage a read through a dangling pointer may yield
MaxGarbage == 2
\* depth of the C++ call stack of handle (the recursion of handle is cut here)
MaxDepth == 6

(***************************************************************************)
(* instructions.h and utils.h are not part of the source tree at hand: the  *)
(* opcode numbering and the little-endian writers follow the spec (6).      *)
(***************************************************************************)
OP ==
    [Noop |-> 0, Jump |-> 1, Return |-> 2, Frame |-> 3, Call |-> 4, Loads |-> 5,
     Var |-> 6, Assign |-> 7, Function |-> 8, Unknown |-> 9, String |-> 10,
     Number |-> 11, Boolean |-> 12, True |-> 13, False |-> 14,
     StringLiteral |-> 15, NumberLiteral |-> 16, BigIntLiteral |-> 17, Union |-> 18]

\* byte k (0 = least significant) of an unsigned 32 bit value (every value of
\* the bounded model is far below 2^31, the largest number TLC computes with)
ByteOf(value, k) == (value \div (256 ^ k)) % 256

\* utils.h writeUint32: grow the buffer by 4 when the write would pass its end,
\* then store the value little-endian at the 0-based offset
writeUint32(bin, offset, value) ==
    LET b == IF offset + 4 > Len(bin) THEN bin \o <<0, 0, 0, 0>> ELSE bin
    IN [i \in 1..Len(b) |->
          IF i - 1 >= offset /\ i - 1 < offset + 4 THEN ByteOf(value, i - 1 - offset) ELSE b[i]]

\* utils.h writeUint16
writeUint16(bin, offset, value) ==
    LET b == IF offset + 2 > Len(bin) THEN bin \o <<0, 0>> ELSE bin
    IN [i \in 1..Len(b) |->
          IF i - 1 >= offset /\ i - 1 < offset + 2 THEN ByteOf(value % 65536, i - 1 - offset) ELSE b[i]]

\* utils.h readUint32 of 4 bytes inside the buffer
readUint32(bin, offset) ==
    bin[offset + 1] + 256 * bin[offset + 2] + 65536 * bin[offset + 3] + 16777216 * bin[offset + 4]

\* utils.h readUint16
readUint16(bin, offset) == bin[offset + 1] + 256 * bin[offset + 2]

(***************************************************************************)
(* Pointers.  Symbol::routine and the entries of activeSubroutines are raw  *)
(* Subroutine* into the vector `subroutines` (line 228, 104).  A pointer is *)
(* the heap buffer of the vector at the time it was taken and the element   *)
(* position; push_back at full capacity moves the elements to a new buffer  *)
(* and every older pointer dangles.  What a use of a dangling pointer does  *)
(* is not defined: it is drawn from Junk.                                   *)
(***************************************************************************)
NullPtr == [buf |-> 0, idx |-> 0]

\* outcome of an undefined read: -1 the process dies, else the value read
Junk == -1 .. MaxGarbage

Live(P, ptr) == ptr.buf = P.subBuf /\ ptr.idx \in 1..Len(P.subroutines)

\* std::vector growth at push_back with size = capacity (libstdc++, libc++)
GrownCapacity(cap) == IF cap = 0 THEN 1 ELSE 2 * cap

Raise(P, what) == [P EXCEPT !.error = what]

Ok(P) == P.error = "none"

(***************************************************************************)
(* class Program                                                            *)
(***************************************************************************)
\* Program program; (lines 75-85): the root frame has id 0 and no parent.
\* frames holds every Frame object made, frame the current one; subCap and
\* subBuf are the capacity and the heap buffer of `subroutines`.  Two fields
\* are history the code does not keep: entered, the frame each active routine
\* was entered with, and in a symbol declaredAs, the SymbolType its declaration
\* passed.  pos and opSourceMap, which nothing reads, are left out.
NewProgram ==
    [ops |-> <<>>, storage |-> <<>>, storageIndex |-> 0,
     frames |-> <<[previous |-> 0, id |-> 0, symbols |-> <<>>]>>, frame |-> 1,
     activeSubroutines |-> <<>>, subroutines |-> <<>>, subCap |-> 0, subBuf |-> 0,
     entered |-> <<>>, error |-> "none"]

\* getOPs() that forgets the active routine
getOPsMainOnly(P) == [kind |-> "main", idx |-> 0]

\* the buffer getOPs() refers to: main, a live routine, or storage that is gone
getOPs(P) ==
    IF Len(P.activeSubroutines) > 0
    THEN LET top == P.activeSubroutines[Len(P.activeSubroutines)]
         IN IF Live(P, top) THEN [kind |-> "routine", idx |-> top.idx]
            ELSE [kind |-> "invalid", idx |-> 0]
    ELSE [kind |-> "main", idx |-> 0]

\* append bytes to the buffer getOPs() returned
Emit(P, bytes, junk) ==
    LET t == getOPs(P)
    IN IF ~Ok(P) THEN P
       ELSE IF t.kind = "main" THEN [P EXCEPT !.ops = @ \o bytes]
       ELSE IF t.kind = "routine" THEN [P EXCEPT !.subroutines[t.idx].ops = @ \o bytes]
       ELSE IF junk = -1 \/ P.activeSubroutines[Len(P.activeSubroutines)] = NullPtr
            THEN Raise(P, "crash")
       ELSE P  \* the bytes land in freed storage

pushOp(P, op, junk) == Emit(P, <<op>>, junk)

pushAddress(P, address, junk) == Emit(P, writeUint32(<<>>, 0, address), junk)

\* sym = <<frame, slot>> designates frames[frame].symbols[slot]
SymbolAt(P, sym) == P.frames[sym[1]].symbols[sym[2]]

pushSymbolAddress(P, sym, junk) ==
    LET s == SymbolAt(P, sym)
    IN Emit(P, writeUint32(<<>>, 0, P.frames[s.frame].id) \o writeUint32(<<>>, 0, s.index), junk)

\* pushFrame() that takes every frame for an implicit one
pushFrameSilent(P, implicit, junk) ==
    IF ~Ok(P) THEN P
    ELSE [P EXCEPT !.frames = Append(@, [previous |-> P.frame,
                                         id |-> P.frames[P.frame].id + 1,
                                         symbols |-> <<>>]),
                   !.frame = Len(P.frames) + 1]

pushFrame(P, implicit, junk) ==
    LET P1 == IF implicit THEN P ELSE pushOp(P, OP.Frame, junk)
    IN IF ~Ok(P1) THEN P1
       ELSE [P1 EXCEPT !.frames = Append(@, [previous |-> P1.frame,
                                              id |-> P1.frames[P1.frame].id + 1,
                                              symbols |-> <<>>]),
                       !.frame = Len(P1.frames) + 1]

\* popFrameImplicit() that leaves the current frame where it is
popFrameImplicitStays(P) == P

\* popFrameImplicit() without the test of line 149
popFrameImplicitUnchecked(P) == [P EXCEPT !.frame = P.frames[P.frame].previous]

popFrameImplicit(P) ==
    IF ~Ok(P) THEN P
    ELSE IF P.frames[P.frame].previous # 0 THEN [P EXCEPT !.frame = P.frames[P.frame].previous]
    ELSE P

\* position of the first symbol called name in a frame, 0 when there is none
SlotOf(P, f, name) ==
    LET hits == {k \in 1..Len(P.frames[f].symbols) : P.frames[f].symbols[k].name = name}
    IN IF hits = {} THEN 0 ELSE CHOOSE k \in hits : \A j \in hits : k <= j

\* s.routine->address: the value read and the state (dead when the read kills)
ReadAddress(P, ptr, junk) ==
    IF Live(P, ptr) THEN [p |-> P, val |-> P.subroutines[ptr.idx].address]
    ELSE IF ptr = NullPtr \/ junk = -1 THEN [p |-> Raise(P, "crash"), val |-> 0]
    ELSE [p |-> P, val |-> junk]

\* pushSubroutine() that returns 0 for every routine
pushSubroutineFirst(P, name, junk) ==
    LET k == SlotOf(P, P.frame, name)
    IN IF ~Ok(P) THEN [p |-> P, val |-> 0]
       ELSE IF k = 0 THEN [p |-> Raise(P, "no symbol found for"), val |-> 0]
       ELSE LET s  == P.frames[P.frame].symbols[k]
                P1 == pushFrame(P, TRUE, junk)
            IN [p |-> [P1 EXCEPT !.activeSubroutines = Append(@, s.routine),
                                 !.entered = Append(@, P1.frame)],
                val |-> 0]

pushSubroutine(P, name, junk) ==
    LET k == SlotOf(P, P.frame, name)
    IN IF ~Ok(P) THEN [p |-> P, val |-> 0]
       ELSE IF k = 0 THEN [p |-> Raise(P, "no symbol found for"), val |-> 0]
       ELSE LET s  == P.frames[P.frame].symbols[k]
                P1 == pushFrame(P, TRUE, junk)
                P2 == [P1 EXCEPT !.activeSubroutines = Append(@, s.routine),
                                 !.entered = Append(@, P1.frame)]
            IN ReadAddress(P2, s.routine, junk)

\* popSubroutine() without line 121: the routine stays on the active stack
popSubroutineKeepsActive(P, junk) ==
    IF ~Ok(P) THEN P
    ELSE IF Len(P.activeSubroutines) = 0 THEN Raise(P, "No active subroutine found")
    ELSE LET P1  == popFrameImplicit(P)
             top == P1.activeSubroutines[Len(P1.activeSubroutines)]
         IN IF ~Live(P1, top) THEN Raise(P1, "crash")
            ELSE IF Len(P1.subroutines[top.idx].ops) = 0 THEN Raise(P1, "Routine is empty")
            ELSE [P1 EXCEPT !.subroutines[top.idx].ops = Append(@, OP.Return)]

\* popSubroutine() without line 116: the routine's frame is not left
popSubroutineKeepsFrame(P, junk) ==
    IF ~Ok(P) THEN P
    ELSE IF Len(P.activeSubroutines) = 0 THEN Raise(P, "No active subroutine found")
    ELSE LET top == P.activeSubroutines[Len(P.activeSubroutines)]
             pop == [P EXCEPT !.activeSubroutines = SubSeq(@, 1, Len(@) - 1),
                              !.entered = SubSeq(@, 1, Len(@) - 1)]
         IN IF ~Live(P, top) THEN Raise(P, "crash")
            ELSE IF Len(P.subroutines[top.idx].ops) = 0 THEN Raise(P, "Routine is empty")
            ELSE [pop EXCEPT !.subroutines[top.idx].ops = Append(@, OP.Return)]

popSubroutine(P, junk) ==
    IF ~Ok(P) THEN P
    ELSE IF Len(P.activeSubroutines) = 0 THEN Raise(P, "No active subroutine found")
    ELSE LET P1  == popFrameImplicit(P)
             top == P1.activeSubroutines[Len(P1.activeSubroutines)]
             pop == [P1 EXCEPT !.activeSubroutines = SubSeq(@, 1, Len(@) - 1),
                               !.entered = SubSeq(@, 1, Len(@) - 1)]
         IN IF Live(P1, top)
            THEN IF Len(P1.subroutines[top.idx].ops) = 0 THEN Raise(P1, "Routine is empty")
                 ELSE [pop EXCEPT !.subroutines[top.idx].ops = Append(@, OP.Return)]
            ELSE IF top = NullPtr \/ junk = -1 THEN Raise(P1, "crash")
            ELSE IF junk = 0 THEN Raise(P1, "Routine is empty")
            ELSE pop  \* Return lands in freed storage

RECURSIVE FindFrom(_, _, _)
FindFrom(P, f, identifier) ==
    IF SlotOf(P, f, identifier) # 0 THEN <<f, SlotOf(P, f, identifier)>>
    ELSE IF P.frames[f].previous = 0 THEN <<0, 0>>
    ELSE FindFrom(P, P.frames[f].previous, identifier)

\* <<frame, slot>> of the symbol found, <<0, 0>> where the code throws
findSymbol(P, identifier) == FindFrom(P, P.frame, identifier)

\* the Symbol aggregate of lines 210-215 names no .type: the member is
\* value-initialised to the first enumerator, whatever the type argument
pushSymbol(P, name, type, frameToUse) ==
    LET f == IF frameToUse = 0 THEN P.frame ELSE frameToUse
        k == SlotOf(P, f, name)
    IN IF k # 0
       THEN [p |-> [P EXCEPT !.frames[f].symbols[k].declarations = @ + 1], sym |-> <<f, k>>]
       ELSE [p |-> [P EXCEPT !.frames[f].symbols =
                        Append(@, [name |-> name, type |-> "Variable",
                                   index |-> Len(P.frames[f].symbols), declarations |-> 1,
                                   routine |-> NullPtr, frame |-> f, declaredAs |-> type])],
             sym |-> <<f, Len(P.frames[f].symbols) + 1>>]

\* pushSymbolForRoutine() without line 221: a routine is registered every time
pushSymbolForRoutineAlways(P, name, type, frameToUse) ==
    LET r == pushSymbol(P, name, type, frameToUse)
        Q == r.p
        full == Len(Q.subroutines) = Q.subCap
        buf  == IF full THEN Q.subBuf + 1 ELSE Q.subBuf
    IN [p |-> [Q EXCEPT !.subroutines = Append(@, [ops |-> <<>>, identifier |-> name,
                                                    address |-> Len(Q.subroutines),
                                                    type |-> type]),
                        !.subCap = IF full THEN GrownCapacity(@) ELSE @,
                        !.subBuf = buf,
                        !.frames[r.sym[1]].symbols[r.sym[2]].routine =
                            [buf |-> buf, idx |-> Len(Q.subroutines) + 1]],
        sym |-> r.sym]

pushSymbolForRoutine(P, name, type, frameToUse) ==
    LET r == pushSymbol(P, name, type, frameToUse)
        Q == r.p
        full == Len(Q.subroutines) = Q.subCap
        buf  == IF full THEN Q.subBuf + 1 ELSE Q.subBuf
    IN IF SymbolAt(Q, r.sym).routine # NullPtr THEN r
       ELSE [p |-> [Q EXCEPT !.subroutines = Append(@, [ops |-> <<>>, identifier |-> name,
                                                         address |-> Len(Q.subroutines),
                                                         type |-> type]),
                             !.subCap = IF full THEN GrownCapacity(@) ELSE @,
                             !.subBuf = buf,
                             !.frames[r.sym[1]].symbols[r.sym[2]].routine =
                                 [buf |-> buf, idx |-> Len(Q.subroutines) + 1]],
             sym |-> r.sym]

\* registerStorage() that counts the payload but not its 2-byte length
registerStorageNoLength(P, s) ==
    LET index == IF P.storageIndex = 0 THEN 5 ELSE P.storageIndex
    IN [p |-> [P EXCEPT !.storage = Append(@, s),
                        !.storageIndex = index + Len(s)],
        val |-> index]

registerStorage(P, s) ==
    LET index == IF P.storageIndex = 0 THEN 5 ELSE P.storageIndex
    IN [p |-> [P EXCEPT !.storage = Append(@, s),
                        !.storageIndex = index + 2 + Len(s)],
        val |-> index]

pushStorage(P, s, junk) ==
    LET r == registerStorage(P, s)
    IN IF ~Ok(P) THEN P ELSE pushAddress(r.p, r.val, junk)

RECURSIVE StorageFrom(_, _, _, _)
StorageFrom(storage, k, i, index) ==
    IF k > Len(storage) THEN "!unknown"
    ELSE IF i = index THEN storage[k]
    ELSE StorageFrom(storage, k + 1, i + 2 + Len(storage[k]), index)

findStorage(P, index) == StorageFrom(P.storage, 1, 5, index)

(***************************************************************************)
(* build() and setFinalBinaryAddress().  A Call whose operand lies past the *)
(* end of the buffer, or names no element of `subroutines`, is read out of  *)
(* bounds: the value comes from junk.                                       *)
(***************************************************************************)
\* the scan of lines 299-318 from 0-based position i; `end` is the size on entry
RECURSIVE ScanFrom(_, _, _, _, _)
ScanFrom(subs, ops, i, end, junk) ==
    IF i >= end THEN [ops |-> ops, ok |-> TRUE]
    ELSE IF ops[i + 1] = OP.Call
    THEN LET inside == i + 5 <= Len(ops)
             index  == IF inside THEN readUint32(ops, i + 1) ELSE junk
             known  == index >= 0 /\ index < Len(subs)
             addr   == IF known THEN subs[index + 1].address ELSE junk
         IN IF index = -1 \/ addr = -1 THEN [ops |-> ops, ok |-> FALSE]
            ELSE ScanFrom(subs, writeUint32(ops, i + 1, addr), i + 5, end, junk)
    ELSE IF ops[i + 1] \in {OP.Loads, OP.NumberLiteral, OP.BigIntLiteral, OP.StringLiteral}
    THEN ScanFrom(subs, ops, i + 5, end, junk)
    ELSE ScanFrom(subs, ops, i + 1, end, junk)

setFinalBinaryAddress(subs, ops, junk) == ScanFrom(subs, ops, 0, Len(ops), junk)

\* the 0-based positions at which the loop of lines 299-318 reads ops[i] as an
\* opcode (line 300), from position i on
RECURSIVE ScannedFrom(_, _, _)
ScannedFrom(ops, i, end) ==
    IF i >= end THEN {}
    ELSE IF ops[i + 1] \in {OP.Call, OP.Loads, OP.NumberLiteral, OP.BigIntLiteral, OP.StringLiteral}
    THEN {i} \union ScannedFrom(ops, i + 5, end)
    ELSE {i} \union ScannedFrom(ops, i + 1, end)

\* lines 266-270: [bin, address] after the storage items from k on are written
RECURSIVE WriteStorage(_, _, _, _)
WriteStorage(storage, k, bin, address) ==
    IF k > Len(storage) THEN [bin |-> bin, address |-> address]
    ELSE WriteStorage(storage, k + 1,
                      writeUint16(bin, address, Len(storage[k])) \o storage[k],
                      address + 2 + Len(storage[k]))

\* lines 273-277: every routine gets its final address
RECURSIVE AssignAddresses(_, _, _)
AssignAddresses(subs, k, routineAddress) ==
    IF k > Len(subs) THEN subs
    ELSE AssignAddresses([subs EXCEPT ![k].address = routineAddress], k + 1,
                         routineAddress + Len(subs[k].ops))

\* lines 281-283: the routines' buffers are patched one after the other
RECURSIVE PatchRoutines(_, _, _)
PatchRoutines(subs, k, junk) ==
    IF k > Len(subs) THEN [subs |-> subs, ok |-> TRUE]
    ELSE LET r == setFinalBinaryAddress(subs, subs[k].ops, junk)
         IN IF ~r.ok THEN [subs |-> subs, ok |-> FALSE]
            ELSE PatchRoutines([subs EXCEPT ![k].ops = r.ops], k + 1, junk)

\* line 287 without the routine's size
AddressAfterStale(address, routine) == address

\* line 287: address += routine.ops.size()
AddressAfter(address, routine) == address + Len(routine.ops)

\* lines 285-288
RECURSIVE AppendRoutines(_, _, _, _)
AppendRoutines(subs, k, bin, address) ==
    IF k > Len(subs) THEN [bin |-> bin, address |-> address]
    ELSE AppendRoutines(subs, k + 1, bin \o subs[k].ops, AddressAfter(address, subs[k]))

HasHeader(P) == Len(P.storage) > 0 \/ Len(P.subroutines) > 0

\* [p |-> the program after build, bin |-> the string returned]
build(P, junk) ==
    LET head   == IF HasHeader(P) THEN writeUint32(<<OP.Jump>>, 1, 0) ELSE <<>>
        st     == WriteStorage(P.storage, 1, head, IF HasHeader(P) THEN 5 ELSE 0)
        subs1  == AssignAddresses(P.subroutines, 1, st.address)
        main   == setFinalBinaryAddress(subs1, P.ops, junk)
        patched == PatchRoutines(subs1, 1, junk)
        body   == AppendRoutines(patched.subs, 1, st.bin, st.address)
    IN IF ~Ok(P) THEN [p |-> P, bin |-> <<>>]
       ELSE IF ~main.ok \/ ~patched.ok
       THEN [p |-> Raise([P EXCEPT !.subroutines = subs1], "crash"), bin |-> <<>>]
       ELSE [p |-> [P EXCEPT !.subroutines = patched.subs, !.ops = main.ops],
             bin |-> writeUint32(body.bin, 1, body.address) \o main.ops]

(***************************************************************************)
(* The AST handed to Compiler::handle (types.h is outside the source tree;  *)
(* a node carries its kind and the fields handle reads).                    *)
(***************************************************************************)
NoNode == [kind |-> "None"]
Keyword(kind) == [kind |-> kind]
Literal(kind, text) == [kind |-> kind, text |-> text]
UnionTypeNode(types) == [kind |-> "UnionType", types |-> types]
TypeReferenceNode(typeName) == [kind |-> "TypeReference", typeName |-> typeName]
\* typeParameters: how many the list holds (0: no list); handle reads no parameter's name
TypeAliasDeclaration(name, typeParameters, type) ==
    [kind |-> "TypeAliasDeclaration", name |-> name, typeParameters |-> typeParameters, type |-> type]
FunctionDeclaration(name, parameters, type) ==
    [kind |-> "FunctionDeclaration", name |-> name, parameters |-> parameters, type |-> type]
VariableDeclaration(name, type, initializer) ==
    [kind |-> "VariableDeclaration", name |-> name, type |-> type, initializer |-> initializer]
VariableStatement(declarations) == [kind |-> "VariableStatement", declarations |-> declarations]
SourceFile(statements) == [kind |-> "SourceFile", statements |-> statements]

\* literal texts: "1" and "22"
Text1 == <<49>>
Text22 == <<50, 50>>

KeywordOp ==
    [BooleanKeyword |-> OP.Boolean, StringKeyword |-> OP.String, NumberKeyword |-> OP.Number,
     TrueKeyword |-> OP.True, FalseKeyword |-> OP.False]

LiteralOp ==
    [BigIntLiteral |-> OP.BigIntLiteral, NumericLiteral |-> OP.NumberLiteral,
     StringLiteral |-> OP.StringLiteral]

\* the statements source files are made of
Statements ==
    { TypeAliasDeclaration("A", 0, Keyword("StringKeyword")),
      TypeAliasDeclaration("B", 0, UnionTypeNode(<<Keyword("NumberKeyword"), Keyword("StringKeyword")>>)),
      TypeAliasDeclaration("A", 0, TypeReferenceNode("B")),
      TypeAliasDeclaration("B", 0, TypeReferenceNode("A")),
      TypeAliasDeclaration("B", 0, TypeReferenceNode("B")),
      TypeAliasDeclaration("B", 0, TypeReferenceNode("T")),
      TypeAliasDeclaration("A", 1, Keyword("BooleanKeyword")),
      TypeAliasDeclaration("A", 1, TypeReferenceNode("T")),
      TypeAliasDeclaration("B", 2, TypeReferenceNode("B")),
      TypeAliasDeclaration("A", 0, Keyword("AnyKeyword")),
      TypeAliasDeclaration("B", 0, UnionTypeNode(<<Keyword("TrueKeyword"), Literal("StringLiteral", Text22),
                                                   TypeReferenceNode("A")>>)),
      VariableStatement(<<VariableDeclaration("A", Keyword("NumberKeyword"), Literal("NumericLiteral", Text1))>>),
      VariableStatement(<<VariableDeclaration("B", NoNode, Literal("NumericLiteral", Text1))>>),
      VariableStatement(<<VariableDeclaration("A", TypeReferenceNode("B"), NoNode),
                          VariableDeclaration("B", NoNode, Keyword("FalseKeyword"))>>),
      FunctionDeclaration("A", 0, Keyword("StringKeyword")),
      FunctionDeclaration("B", 0, NoNode),
      FunctionDeclaration("A", 1, Literal("BigIntLiteral", Text1)) }

Files == UNION {[1..n -> Statements] : n \in 0..MaxStatements}

(***************************************************************************)
(* State.                                                                   *)
(*   program  the Program object (line 369)                                 *)
(*   file     the source file given to compileSourceFile                    *)
(*   stack    the activations of handle, innermost first: the node, the     *)
(*            place reached in its case, the loop position, the local       *)
(*            subroutineIndex                                               *)
(*   called   for each activation, innermost first, the current frame and   *)
(*            the active stack at the time handle was called (history the   *)
(*            code does not keep)                                           *)
(*   bin      what build() returned                                         *)
(*   phase    "compile", "compiled", "built", or "failed" when an exception *)
(*            or a crash ended the run                                      *)
(***************************************************************************)
VARIABLES program, file, stack, called, bin, phase

vars == <<program, file, stack, called, bin, phase>>

Activation(node) == [node |-> node, pc |-> "start", i |-> 0, local |-> 0]

Init ==
    /\ program = NewProgram
    /\ file \in Files
    /\ stack = <<Activation(SourceFile(file))>>
    /\ called = <<[frame |-> 1, activeSubroutines |-> <<>>]>>
    /\ bin = <<>>
    /\ phase = "compile"

Top == stack[1]

Running(kind, pc) ==
    /\ phase = "compile"
    /\ stack # <<>>
    /\ Top.node.kind = kind
    /\ Top.pc = pc

\* the step leaves program P and, unless P threw or died, the activations next
Step(P, next) ==
    /\ Len(next) <= MaxDepth
    /\ program' = P
    /\ stack' = IF Ok(P) THEN next ELSE <<>>
    /\ called' = IF ~Ok(P) THEN <<>>
                 ELSE IF Len(next) > Len(stack)
                 THEN <<[frame |-> P.frame, activeSubroutines |-> P.activeSubroutines]>> \o called
                 ELSE IF Len(next) < Len(stack) THEN Tail(called)
                 ELSE called
    /\ phase' = IF Ok(P) THEN phase ELSE "failed"
    /\ UNCHANGED <<file, bin>>

\* handle(child, program) is called; the caller goes on at pc, i, local
Descend(child, pc, i, local) ==
    <<Activation(child), [Top EXCEPT !.pc = pc, !.i = i, !.local = local]>> \o Tail(stack)

Returned == Tail(stack)

\* case SourceFile (lines 378-383)
handleSourceFile ==
    /\ Running("SourceFile", "start")
    /\ IF Top.i < Len(Top.node.statements)
       THEN Step(program, Descend(Top.node.statements[Top.i + 1], "start", Top.i + 1, 0))
       ELSE Step(program, Returned)

\* cases BooleanKeyword, StringKeyword, NumberKeyword, TrueKeyword, FalseKeyword
handleKeyword ==
    /\ phase = "compile" /\ stack # <<>>
    /\ Top.node.kind \in DOMAIN KeywordOp
    /\ \E junk \in Junk : Step(pushOp(program, KeywordOp[Top.node.kind], junk), Returned)

\* cases BigIntLiteral, NumericLiteral, StringLiteral (lines 390-398)
handleLiteral ==
    /\ phase = "compile" /\ stack # <<>>
    /\ Top.node.kind \in DOMAIN LiteralOp
    /\ \E junk \in Junk :
         Step(pushStorage(pushOp(program, LiteralOp[Top.node.kind], junk), Top.node.text, junk),
              Returned)

\* case UnionType (lines 403-414): pushFrame, then the members, then Union
handleUnionType ==
    /\ Running("UnionType", "start")
    /\ \E junk \in Junk : Step(pushFrame(program, FALSE, junk), <<[Top EXCEPT !.pc = "types"]>> \o Tail(stack))

handleUnionTypeMembers ==
    /\ Running("UnionType", "types")
    /\ IF Top.i < Len(Top.node.types)
       THEN Step(program, Descend(Top.node.types[Top.i + 1], "types", Top.i + 1, 0))
       ELSE \E junk \in Junk :
              Step(popFrameImplicit(pushOp(program, OP.Union, junk)), Returned)

\* case TypeReference (lines 415-430)
TypeReference(P, name, junk) ==
    LET sym == findSymbol(P, name)
    IN IF sym = <<0, 0>> THEN Raise(P, "No symbol for found")
       ELSE IF SymbolAt(P, sym).type = "TypeVariable"
       THEN pushSymbolAddress(pushOp(P, OP.Loads, junk), sym, junk)
       ELSE LET r == ReadAddress(pushOp(P, OP.Call, junk), SymbolAt(P, sym).routine, junk)
            IN pushAddress(r.p, r.val, junk)

handleTypeReference ==
    /\ Running("TypeReference", "start")
    /\ \E junk \in Junk : Step(TypeReference(program, Top.node.typeName, junk), Returned)

\* lines 442-447: one pushSymbol under the alias's own name and one Var per parameter
RECURSIVE TypeParameters(_, _, _, _)
TypeParameters(P, name, n, junk) ==
    IF n = 0 \/ ~Ok(P) THEN P
    ELSE TypeParameters(pushOp(pushSymbol(P, name, "TypeVariable", 0).p, OP.Var, junk), name, n - 1, junk)

\* case TypeAliasDeclaration (lines 431-439): declare, enter the routine
handleTypeAliasDeclaration ==
    /\ Running("TypeAliasDeclaration", "start")
    /\ \E junk \in Junk :
         LET n == Top.node
             r == pushSymbolForRoutine(program, n.name, "Type", 0)
         IN IF SymbolAt(r.p, r.sym).declarations > 1
            THEN Step(r.p, Returned)
            ELSE Step(pushSubroutine(r.p, n.name, junk).p,
                      <<[Top EXCEPT !.pc = "typeParameters"]>> \o Tail(stack))

\* lines 442-449: the type parameters, then handle(n->type, program)
handleTypeAliasDeclarationType ==
    /\ Running("TypeAliasDeclaration", "typeParameters")
    /\ \E junk \in Junk :
         Step(TypeParameters(program, Top.node.name, Top.node.typeParameters, junk),
              Descend(Top.node.type, "popSubroutine", 0, 0))

\* line 450
handleTypeAliasDeclarationEnd ==
    /\ Running("TypeAliasDeclaration", "popSubroutine")
    /\ \E junk \in Junk : Step(popSubroutine(program, junk), Returned)

\* case FunctionDeclaration (lines 454-462): declare, enter the routine
handleFunctionDeclaration ==
    /\ Running("FunctionDeclaration", "start")
    /\ \E junk \in Junk :
         LET n == Top.node
             r == pushSymbolForRoutine(program, n.name, "Function", 0)
         IN IF SymbolAt(r.p, r.sym).declarations > 1
            THEN Step(r.p, Returned)
            ELSE Step(pushSubroutine(r.p, n.name, junk).p,
                      <<[Top EXCEPT !.pc = "parameters"]>> \o Tail(stack))

\* lines 463-475: handle(n, program) once per parameter, then the return type
handleFunctionDeclarationParameters ==
    /\ Running("FunctionDeclaration", "parameters")
    /\ LET n == Top.node
       IN IF Top.i < n.parameters
          THEN Step(program, Descend(n, "parameters", Top.i + 1, 0))
          ELSE IF n.type # NoNode
          THEN Step(program, Descend(n.type, "Function", 0, 0))
          ELSE \E junk \in Junk :
                 Step(pushOp(program, OP.Unknown, junk), <<[Top EXCEPT !.pc = "Function"]>> \o Tail(stack))

\* lines 476-477
handleFunctionDeclarationEnd ==
    /\ Running("FunctionDeclaration", "Function")
    /\ \E junk \in Junk : Step(popSubroutine(pushOp(program, OP.Function, junk), junk), Returned)

\* case VariableStatement (lines 485-490)
handleVariableStatement ==
    /\ Running("VariableStatement", "start")
    /\ IF Top.i < Len(Top.node.declarations)
       THEN Step(program, Descend(Top.node.declarations[Top.i + 1], "start", Top.i + 1, 0))
       ELSE Step(program, Returned)

\* case VariableDeclaration (lines 491-498): declare, enter the routine
handleVariableDeclaration ==
    /\ Running("VariableDeclaration", "start")
    /\ \E junk \in Junk :
         LET n == Top.node
             r == pushSymbolForRoutine(program, n.name, "Variable", 0)
             e == pushSubroutine(r.p, n.name, junk)
         IN IF SymbolAt(r.p, r.sym).declarations > 1
            THEN Step(r.p, Returned)
            ELSE Step(e.p, <<[Top EXCEPT !.pc = "type", !.local = e.val]>> \o Tail(stack))

\* lines 500-504: the declared type, or Unknown
handleVariableDeclarationType ==
    /\ Running("VariableDeclaration", "type")
    /\ IF Top.node.type # NoNode
       THEN Step(program, Descend(Top.node.type, "popSubroutine", 0, Top.local))
       ELSE \E junk \in Junk :
              Step(pushOp(program, OP.Unknown, junk), <<[Top EXCEPT !.pc = "popSubroutine"]>> \o Tail(stack))

\* lines 505-509: leave the routine, then the initializer if there is one
handleVariableDeclarationEnd ==
    /\ Running("VariableDeclaration", "popSubroutine")
    /\ \E junk \in Junk :
         IF Top.node.initializer # NoNode
         THEN Step(popSubroutine(program, junk), Descend(Top.node.initializer, "Assign", 0, Top.local))
         ELSE Step(popSubroutine(program, junk), Returned)

\* lines 510-512
handleVariableDeclarationAssign ==
    /\ Running("VariableDeclaration", "Assign")
    /\ \E junk \in Junk :
         Step(pushOp(pushAddress(pushOp(program, OP.Call, junk), Top.local, junk), OP.Assign, junk),
              Returned)

HandledKinds ==
    {"SourceFile", "UnionType", "TypeReference", "TypeAliasDeclaration", "FunctionDeclaration",
     "VariableStatement", "VariableDeclaration"} \union DOMAIN KeywordOp \union DOMAIN LiteralOp

\* default (lines 520-522): the node is logged and skipped
handleDefault ==
    /\ phase = "compile" /\ stack # <<>>
    /\ Top.node.kind \notin HandledKinds
    /\ Step(program, Returned)

\* compileSourceFile returns the program (line 373)
compileSourceFile ==
    /\ phase = "compile"
    /\ stack = <<>>
    /\ phase' = "compiled"
    /\ UNCHANGED <<program, file, stack, called, bin>>

\* the caller builds the binary of the compiled program
Build ==
    /\ phase = "compiled"
    /\ \E junk \in Junk :
         LET r == build(program, junk)
         IN /\ program' = r.p
            /\ bin' = r.bin
            /\ phase' = IF Ok(r.p) THEN "built" ELSE "failed"
    /\ UNCHANGED <<file, stack, called>>

Next ==
    \/ handleSourceFile
    \/ handleKeyword
    \/ handleLiteral
    \/ handleUnionType
    \/ handleUnionTypeMembers
    \/ handleTypeReference
    \/ handleTypeAliasDeclaration
    \/ handleTypeAliasDeclarationType
    \/ handleTypeAliasDeclarationEnd
    \/ handleFunctionDeclaration
    \/ handleFunctionDeclarationParameters
    \/ handleFunctionDeclarationEnd
    \/ handleVariableStatement
    \/ handleVariableDeclaration
    \/ handleVariableDeclarationType
    \/ handleVariableDeclarationEnd
    \/ handleVariableDeclarationAssign
    \/ handleDefault
    \/ compileSourceFile
    \/ Build

Spec == Init /\ [][Next]_vars

(***************************************************************************)
(* Vocabulary of the properties below (none of it is used by the model).    *)
(***************************************************************************)
Range(seq) == {seq[k] : k \in 1..Len(seq)}

\* the names a statement declares
DeclaredNames(stmt) ==
    IF stmt.kind = "VariableStatement" THEN {d.name : d \in Range(stmt.declarations)}
    ELSE IF stmt.kind \in {"TypeAliasDeclaration", "FunctionDeclaration"} THEN {stmt.name}
    ELSE {}

\* the registry position of the first routine registered under a name
RoutineNamed(name) ==
    CHOOSE k \in 1..Len(program.subroutines) :
        /\ program.subroutines[k].identifier = name
        /\ \A j \in 1..(k - 1) : program.subroutines[j].identifier # name

RECURSIVE StorageBytes(_, _)
StorageBytes(storage, k) ==
    IF k = 0 THEN 0 ELSE 2 + Len(storage[k]) + StorageBytes(storage, k - 1)

RECURSIVE RoutineBytes(_, _)
RoutineBytes(subs, k) ==
    IF k = 0 THEN 0 ELSE Len(subs[k].ops) + RoutineBytes(subs, k - 1)

\* where routine k (1-based) starts in the image of program P
StartOf(P, k) == 5 + StorageBytes(P.storage, Len(P.storage)) + RoutineBytes(P.subroutines, k - 1)

\* the 0-based positions of the Call opcodes of a buffer, decoded with the
\* operand widths the emitter writes (4 after Call and the literals, 8 after Loads)
RECURSIVE CallsFrom(_, _)
CallsFrom(ops, i) ==
    IF i >= Len(ops) THEN {}
    ELSE IF ops[i + 1] = OP.Call THEN {i} \union CallsFrom(ops, i + 5)
    ELSE IF ops[i + 1] = OP.Loads THEN CallsFrom(ops, i + 9)
    ELSE IF ops[i + 1] \in {OP.NumberLiteral, OP.BigIntLiteral, OP.StringLiteral}
    THEN CallsFrom(ops, i + 5)
    ELSE CallsFrom(ops, i + 1)

\* buffer 0 is the main buffer, buffer k > 0 the buffer of routine k
Buffer(P, k) == IF k = 0 THEN P.ops ELSE P.subroutines[k].ops

(***************************************************************************)
(* C1  Forward reference.  In a source file where alias A's body is a       *)
(* reference to B and the first declaration of B comes after A, compiling   *)
(* raises no error, and after build() the operand of the Call in A's        *)
(* routine is the final address of B's routine.                             *)
(***************************************************************************)
ForwardReference(i, j) ==
    /\ i < j
    /\ file[i].kind = "TypeAliasDeclaration"
    /\ file[i].type.kind = "TypeReference"
    /\ file[j].kind = "TypeAliasDeclaration"
    /\ file[j].name = file[i].type.typeName
    /\ file[j].name # file[i].name
    /\ \A k \in 1..(i - 1) : DeclaredNames(file[k]) \intersect {file[i].name, file[j].name} = {}

C1_ForwardReference ==
    \A i, j \in 1..Len(file) :
        ForwardReference(i, j) =>
            /\ program.error = "none"
            /\ phase = "built" =>
                 LET a == program.subroutines[RoutineNamed(file[i].name)]
                     b == program.subroutines[RoutineNamed(file[j].name)]
                 IN a.ops[1] = OP.Call /\ readUint32(a.ops, 1) = b.address

(***************************************************************************)
(* C2  Dedup.  Interning a payload that is already in the storage pool      *)
(* returns the offset the payload got the first time and adds no entry.     *)
(***************************************************************************)
FirstOffset(s) ==
    LET k == CHOOSE k \in 1..Len(program.storage) :
                 /\ program.storage[k] = s
                 /\ \A j \in 1..(k - 1) : program.storage[j] # s
    IN 5 + StorageBytes(program.storage, k - 1)

C2_Dedup ==
    \A s \in Range(program.storage) :
        /\ registerStorage(program, s).val = FirstOffset(s)
        /\ registerStorage(program, s).p.storage = program.storage

(***************************************************************************)
(* C3  Linked address integrity.  When build() has made the image of a      *)
(* program that compiled without error, every Call of every buffer holds    *)
(* the offset in the image at which the routine whose provisional index     *)
(* the Call carried before build() begins.                                  *)
(***************************************************************************)
C3_LinkedAddressIntegrity ==
    [][(phase = "compiled" /\ phase' = "built") =>
         \A b \in 0..Len(program.subroutines) :
           \A i \in CallsFrom(Buffer(program, b), 0) :
             LET index == readUint32(Buffer(program, b), i + 1)
                 base  == IF b = 0 THEN StartOf(program', Len(program'.subroutines) + 1)
                          ELSE StartOf(program', b)
             IN /\ index < Len(program.subroutines)
                /\ bin'[base + i + 1] = OP.Call
                /\ readUint32(bin', base + i + 1) = StartOf(program', index + 1)
                /\ SubSeq(bin', StartOf(program', index + 1) + 1, StartOf(program', index + 2))
                     = program'.subroutines[index + 1].ops
                /\ program'.subroutines[index + 1].ops # <<>>]_vars

(***************************************************************************)
(* C4  Header jump target.  Whenever build() wrote a header, the 4 bytes at *)
(* offset 1 hold 5 + the length of the storage region + the lengths of all  *)
(* routine buffers, and the main buffer is placed at exactly that offset.   *)
(***************************************************************************)
MainStart == StartOf(program, Len(program.subroutines) + 1)

C4_HeaderJumpTarget ==
    (phase = "built" /\ (program.storage # <<>> \/ program.subroutines # <<>>)) =>
        /\ bin[1] = OP.Jump
        /\ readUint32(bin, 1) = MainStart
        /\ Len(bin) = MainStart + Len(program.ops)
        /\ SubSeq(bin, MainStart + 1, Len(bin)) = program.ops

C4_Witness ==
    /\ phase = "built"
    /\ program.storage # <<>>
    /\ program.subroutines # <<>>
    /\ program.ops # <<>>
    /\ readUint32(bin, 1) > 5 + StorageBytes(program.storage, Len(program.storage))

(***************************************************************************)
(* C5  Redeclaration idempotence.  Handling a type alias, function or       *)
(* variable declaration whose name the current frame already holds adds 1   *)
(* to that symbol's declarations (2 after the second declaration), leaves   *)
(* one symbol and one registry entry of that name, and changes no buffer.   *)
(***************************************************************************)
Redeclaration ==
    /\ phase = "compile"
    /\ stack # <<>>
    /\ Top.pc = "start"
    /\ Top.node.kind \in {"TypeAliasDeclaration", "FunctionDeclaration", "VariableDeclaration"}
    /\ \E k \in 1..Len(program.frames[program.frame].symbols) :
          program.frames[program.frame].symbols[k].name = Top.node.name

C5_RedeclarationIdempotence ==
    [][Redeclaration =>
         LET f      == program.frame
             name   == Top.node.name
             before == program.frames[f].symbols
             after  == program'.frames[f].symbols
             k      == CHOOSE k \in 1..Len(before) : before[k].name = name
         IN /\ after[k].declarations = before[k].declarations + 1
            /\ before[k].declarations = 1 => after[k].declarations = 2
            /\ Cardinality({j \in 1..Len(after) : after[j].name = name}) = 1
            /\ Cardinality({j \in 1..Len(program'.subroutines) :
                              program'.subroutines[j].identifier = name}) = 1
            /\ after[k].routine = before[k].routine
            /\ program'.subroutines = program.subroutines
            /\ program'.ops = program.ops
            /\ program'.storage = program.storage
            /\ program'.error = "none"]_vars

C5_Witness ==
    /\ phase = "compiled"
    /\ Len(program.subroutines) = 1
    /\ Len(program.frames[1].symbols) = 1
    /\ program.frames[1].symbols[1].declarations = 2
    /\ Len(file) = 2

(***************************************************************************)
(* C6  Scope isolation.  A TypeVariable symbol is resolved only inside the  *)
(* routine it was declared in: a type reference compiled in another         *)
(* routine never resolves to it, and a reference whose name no frame from   *)
(* the current one up to the root declares fails with UnresolvedSymbol.     *)
(***************************************************************************)
\* the frames from f up to the root
RECURSIVE Chain(_)
Chain(f) == IF f = 0 THEN {} ELSE {f} \union Chain(program.frames[f].previous)

TypeVariablesOf(f) ==
    {k \in 1..Len(program.frames[f].symbols) : program.frames[f].symbols[k].declaredAs = "TypeVariable"}

C6_ScopeIsolation ==
    [][(Running("TypeReference", "start") /\ program.activeSubroutines # <<>>) =>
         LET name == Top.node.typeName
             own  == program.entered[Len(program.entered)]
             sym  == findSymbol(program, name)
         IN /\ (sym # <<0, 0>> /\ sym[2] \in TypeVariablesOf(sym[1])) => sym[1] = own
            /\ (\A f \in Chain(own) : \A k \in 1..Len(program.frames[f].symbols) :
                   program.frames[f].symbols[k].name # name)
                 => program'.error = "No symbol for found"]_vars

\* the reference to T in `type B = T` failed while the frame of an earlier
\* alias's routine holds a TypeVariable
C6_Witness ==
    /\ phase = "failed"
    /\ program.error = "No symbol for found"
    /\ Len(program.subroutines) = 2
    /\ program.activeSubroutines # <<>>
    /\ \E f \in 1..Len(program.frames) :
          /\ TypeVariablesOf(f) # {}
          /\ f \notin Chain(program.frame)

(***************************************************************************)
(* C7  Frame ids.  Any two frames ever created have different ids.          *)
(***************************************************************************)
C7_FrameIdsUnique ==
    \A f, g \in 1..Len(program.frames) :
        f # g => program.frames[f].id # program.frames[g].id

(***************************************************************************)
(* C8  Type reference.  A reference that resolves to a symbol declared as   *)
(* TypeVariable appends Loads, the id of the symbol's frame and its slot    *)
(* index; a reference to any other symbol appends Call and the provisional  *)
(* index of the symbol's routine.                                           *)
(***************************************************************************)
\* the buffer written to: the routine on top of the active stack, else main
Target == 
    IF program.activeSubroutines # <<>>
    THEN program.activeSubroutines[Len(program.activeSubroutines)].idx
    ELSE 0

C8_TypeReference ==
    [][(Running("TypeReference", "start") /\ findSymbol(program, Top.node.typeName) # <<0, 0>>) =>
         LET s == SymbolAt(program, findSymbol(program, Top.node.typeName))
         IN Buffer(program', Target) = Buffer(program, Target) \o
              (IF s.declaredAs = "TypeVariable"
               THEN <<OP.Loads>> \o writeUint32(<<>>, 0, program.frames[s.frame].id)
                                 \o writeUint32(<<>>, 0, s.index)
               ELSE <<OP.Call>> \o writeUint32(<<>>, 0, s.routine.idx - 1))]_vars

(***************************************************************************)
(* C9  Emission target.  pushOp, pushAddress, pushSymbolAddress and         *)
(* pushStorage append their bytes to the buffer of the routine on top of    *)
(* the active stack when there is one and to the main buffer otherwise, and *)
(* no step of the compilation changes any other buffer or any byte that a   *)
(* buffer already holds.                                                    *)
(***************************************************************************)
\* Q differs from P in buffer t only, which gained exactly bytes
AppendsTo(P, Q, t, bytes) ==
    /\ Len(Q.subroutines) = Len(P.subroutines)
    /\ Buffer(Q, t) = Buffer(P, t) \o bytes
    /\ \A k \in 0..Len(P.subroutines) : k # t => Buffer(Q, k) = Buffer(P, k)

AllSymbols ==
    {<<f, k>> \in (1..Len(program.frames)) \X (1..MaxStatements + 1) :
        k <= Len(program.frames[f].symbols)}

EmittersAppendToTarget ==
    (phase = "compile" /\ Ok(program)) =>
        \A junk \in Junk :
            /\ \A op \in {OP.Var, OP.Call, OP.Union} :
                  AppendsTo(program, pushOp(program, op, junk), Target, <<op>>)
            /\ \A address \in {0, 258} :
                  AppendsTo(program, pushAddress(program, address, junk), Target,
                            <<address % 256, address \div 256, 0, 0>>)
            /\ \A sym \in AllSymbols :
                  AppendsTo(program, pushSymbolAddress(program, sym, junk), Target,
                            <<program.frames[SymbolAt(program, sym).frame].id, 0, 0, 0,
                              SymbolAt(program, sym).index, 0, 0, 0>>)
            /\ \A s \in {Text1, Text22} :
                  LET Q == pushStorage(program, s, junk)
                  IN /\ AppendsTo(program, Q, Target,
                                  <<5 + StorageBytes(program.storage, Len(program.storage)), 0, 0, 0>>)
                     /\ Q.storage = Append(program.storage, s)

StepsAppendToTarget ==
    phase = "compile" =>
        /\ Len(program'.subroutines) >= Len(program.subroutines)
        /\ \A k \in 0..Len(program'.subroutines) :
              IF k > Len(program.subroutines) THEN Buffer(program', k) = <<>>
              ELSE \/ Buffer(program', k) = Buffer(program, k)
                   \/ /\ k = Target
                      /\ Len(Buffer(program', k)) > Len(Buffer(program, k))
                      /\ SubSeq(Buffer(program', k), 1, Len(Buffer(program, k))) = Buffer(program, k)

C9_EmissionTarget == []EmittersAppendToTarget /\ [][StepsAppendToTarget]_vars

\* a routine is being compiled and has received bytes while main holds others
C9_Witness ==
    /\ phase = "compile"
    /\ program.activeSubroutines # <<>>
    /\ Target = 2
    /\ Buffer(program, 2) # <<>>
    /\ Buffer(program, 1) # <<>>
    /\ program.ops # <<>>

(***************************************************************************)
(* C10  Leaving a routine.  popSubroutine with an empty active stack fails  *)
(* with NoActiveRoutine; with an active routine whose buffer is empty it    *)
(* fails with EmptyRoutine; otherwise the current frame becomes the parent  *)
(* of the frame entered for the routine, one Return byte is appended to the *)
(* routine's buffer and one entry leaves the active stack.                  *)
(***************************************************************************)
NoActiveRoutine ==
    (Ok(program) /\ program.activeSubroutines = <<>>) =>
        \A junk \in Junk :
            popSubroutine(program, junk) = Raise(program, "No active subroutine found")

\* the steps that end with popSubroutine(), and what they emit before it
LeavesRoutine ==
    \/ Running("TypeAliasDeclaration", "popSubroutine")
    \/ Running("VariableDeclaration", "popSubroutine")
    \/ Running("FunctionDeclaration", "Function")

EmittedBeforeLeaving ==
    IF Top.node.kind = "FunctionDeclaration" THEN <<OP.Function>> ELSE <<>>

C10_Leave ==
    [][LeavesRoutine =>
         LET t       == Target
             routine == Buffer(program, t) \o EmittedBeforeLeaving
             own     == program.entered[Len(program.entered)]
             n       == Len(program.activeSubroutines)
         IN /\ n > 0
            /\ IF routine = <<>>
               THEN program'.error = "Routine is empty"
               ELSE /\ program'.error = "none"
                    /\ program'.frame = program.frames[own].previous
                    /\ Buffer(program', t) = routine \o <<OP.Return>>
                    /\ program'.activeSubroutines = SubSeq(program.activeSubroutines, 1, n - 1)
                    /\ \A k \in 0..Len(program.subroutines) :
                          k # t => Buffer(program', k) = Buffer(program, k)]_vars

C10_LeaveRoutine == []NoActiveRoutine /\ C10_Leave

\* a routine was left: its buffer ends with Return, the active stack is empty
\* again and the current frame is the root, the parent of the frame entered
C10_Witness ==
    /\ phase = "compile"
    /\ Ok(program)
    /\ Len(program.subroutines) = 1
    /\ program.subroutines[1].ops # <<>>
    /\ program.subroutines[1].ops[Len(program.subroutines[1].ops)] = OP.Return
    /\ program.activeSubroutines = <<>>
    /\ Len(program.frames) > 1
    /\ program.frame = 1

(***************************************************************************)
(* C11  popFrameImplicit.  At the root frame it raises nothing and changes  *)
(* nothing, neither the current frame nor any symbol, buffer or the active  *)
(* stack; at any other frame it makes the parent current and changes        *)
(* nothing else.                                                            *)
(***************************************************************************)
C11_LeaveScope ==
    Ok(program) =>
        IF program.frames[program.frame].previous = 0
        THEN popFrameImplicit(program) = program
        ELSE popFrameImplicit(program) =
                 [program EXCEPT !.frame = program.frames[program.frame].previous]

\* between two statements: frames were made and left, the root is current again
C11_Witness ==
    /\ phase = "compile"
    /\ Ok(program)
    /\ Len(program.frames) > 2
    /\ program.frame = 1
    /\ program.frames[program.frame].previous = 0
    /\ popFrameImplicit(program).frame = 1
    /\ program.ops # <<>>

(***************************************************************************)
(* C12  Header presence.  The image build() returns starts with Jump and    *)
(* its 4-byte target exactly when the storage pool or the registry is not   *)
(* empty; when both are empty the image is the main buffer and nothing else.*)
(***************************************************************************)
C12_HeaderPresence ==
    phase = "built" =>
        IF program.storage = <<>> /\ program.subroutines = <<>>
        THEN bin = program.ops
        ELSE /\ Len(bin) >= 5
             /\ bin[1] = OP.Jump
             /\ Len(bin) = 5 + StorageBytes(program.storage, Len(program.storage))
                             + RoutineBytes(program.subroutines, Len(program.subroutines))
                             + Len(program.ops)

(***************************************************************************)
(* C13  Union.  Compiling a union type appends to the current target Frame, *)
(* then the code of each member in source order, then Union, and Union has  *)
(* no operand; for number | string the bytes are Frame, Number, String,     *)
(* Union.                                                                   *)
(***************************************************************************)
\* bytes ops[pos+1 ..] up to `end` are the codes of members k.. of types, each
\* beginning with an opcode of its kind and as long as that opcode's operands
RECURSIVE MembersAt(_, _, _, _, _)
MembersAt(ops, pos, types, k, end) ==
    IF k > Len(types) THEN pos = end
    ELSE /\ pos < end
         /\ LET m  == types[k]
                op == ops[pos + 1]
            IN IF m.kind \in DOMAIN KeywordOp
               THEN op = KeywordOp[m.kind] /\ MembersAt(ops, pos + 1, types, k + 1, end)
               ELSE IF m.kind \in DOMAIN LiteralOp
               THEN op = LiteralOp[m.kind] /\ MembersAt(ops, pos + 5, types, k + 1, end)
               ELSE IF m.kind = "TypeReference"
               THEN \/ op = OP.Call /\ MembersAt(ops, pos + 5, types, k + 1, end)
                    \/ op = OP.Loads /\ MembersAt(ops, pos + 9, types, k + 1, end)
               ELSE FALSE

NumberOrString == <<Keyword("NumberKeyword"), Keyword("StringKeyword")>>

C13_UnionEnter ==
    [][Running("UnionType", "start") =>
         /\ program'.error = "none"
         /\ Buffer(program', Target) = Buffer(program, Target) \o <<OP.Frame>>]_vars

C13_UnionLeave ==
    [][(Running("UnionType", "types") /\ Top.i = Len(Top.node.types)) =>
         LET before == Buffer(program, Target)
             after  == Buffer(program', Target)
         IN /\ program'.error = "none"
            /\ after = before \o <<OP.Union>>
            /\ \E start \in 0..(Len(before) - 1) :
                  /\ before[start + 1] = OP.Frame
                  /\ MembersAt(before, start + 1, Top.node.types, 1, Len(before))
            /\ Top.node.types = NumberOrString =>
                  /\ Len(after) >= 4
                  /\ SubSeq(after, Len(after) - 3, Len(after)) =
                         <<OP.Frame, OP.Number, OP.String, OP.Union>>]_vars

\* while the members are compiled, what follows Frame is the code of the
\* members handled so far, in their order
C13_UnionMembers ==
    Running("UnionType", "types") =>
        \E start \in 0..(Len(Buffer(program, Target)) - 1) :
            /\ Buffer(program, Target)[start + 1] = OP.Frame
            /\ MembersAt(Buffer(program, Target), start + 1,
                         SubSeq(Top.node.types, 1, Top.i), 1, Len(Buffer(program, Target)))

C13_UnionScoping == []C13_UnionMembers /\ C13_UnionEnter /\ C13_UnionLeave

\* `type B = number | string` was compiled into routine B
C13_Witness ==
    /\ phase = "compile"
    /\ Ok(program)
    /\ \E k \in 1..Len(program.subroutines) :
          program.subroutines[k].ops = <<OP.Frame, OP.Number, OP.String, OP.Union, OP.Return>>

(***************************************************************************)
(* C14  Registry index validity.  Every Call the walker emits is followed   *)
(* by 4 bytes holding the provisional index of a registered routine         *)
(* (0 <= operand < number of routines), also in an alias with type          *)
(* parameters whose body names the alias; no Call is emitted for a symbol   *)
(* that has no routine.                                                     *)
(***************************************************************************)
\* a step appended Call to buffer t: the 4 bytes after it are a registry index
CallAppended(t) ==
    LET before == Buffer(program, t)
        after  == Buffer(program', t)
        calls  == {i \in CallsFrom(after, 0) : i >= Len(before)}
    IN /\ program'.error = "none"
       /\ \A i \in calls :
             /\ i + 5 <= Len(after)
             /\ readUint32(after, i + 1) < Len(program'.subroutines)

C14_RegistryIndexValidity ==
    [][/\ Running("TypeReference", "start") =>
            LET sym == findSymbol(program, Top.node.typeName)
            IN sym # <<0, 0>> =>
                 /\ SymbolAt(program, sym).routine # NullPtr
                 /\ CallAppended(Target)
                 /\ Len(Buffer(program', Target)) = Len(Buffer(program, Target)) + 5
       /\ Running("VariableDeclaration", "Assign") => CallAppended(Target)]_vars

(***************************************************************************)
(* C15  Termination.  handle only ever calls itself on a child of the node  *)
(* it was given, so the calls never nest deeper than the AST, no more       *)
(* routines are registered than the AST has declarations, and compiling     *)
(* ends; a function declaration with a parameter is no exception.           *)
(***************************************************************************)
\* the child nodes of a node (a parameter of a function is a leaf of the AST)
Children(node) ==
    IF node.kind = "SourceFile" THEN node.statements
    ELSE IF node.kind = "VariableStatement" THEN node.declarations
    ELSE IF node.kind = "UnionType" THEN node.types
    ELSE IF node.kind = "TypeAliasDeclaration" THEN <<node.type>>
    ELSE IF node.kind = "VariableDeclaration"
    THEN SelectSeq(<<node.type, node.initializer>>, LAMBDA c : c # NoNode)
    ELSE IF node.kind = "FunctionDeclaration"
    THEN [k \in 1..node.parameters |-> [kind |-> "Parameter"]]
         \o SelectSeq(<<node.type>>, LAMBDA c : c # NoNode)
    ELSE <<>>

Max(S) == IF S = {} THEN 0 ELSE CHOOSE x \in S : \A y \in S : y <= x

RECURSIVE Depth(_)
Depth(node) == 1 + Max({Depth(c) : c \in Range(Children(node))})

RECURSIVE Sum(_, _)
Sum(f, k) == IF k = 0 THEN 0 ELSE f[k] + Sum(f, k - 1)

RECURSIVE DeclarationsIn(_)
DeclarationsIn(node) ==
    (IF node.kind \in {"TypeAliasDeclaration", "FunctionDeclaration", "VariableDeclaration"}
     THEN 1 ELSE 0)
    + Sum([k \in 1..Len(Children(node)) |-> DeclarationsIn(Children(node)[k])],
          Len(Children(node)))

C15_Bounded ==
    /\ Len(stack) <= Depth(SourceFile(file))
    /\ Len(program.subroutines) <= DeclarationsIn(SourceFile(file))
    /\ Len(program.frames) <= 1 + 2 * Depth(SourceFile(file)) * Len(file)

C15_Descends ==
    [][(phase = "compile" /\ Len(stack') = Len(stack) + 1) =>
          stack'[1].node \in Range(Children(Top.node))]_vars

C15_Termination == []C15_Bounded /\ C15_Descends

(***************************************************************************)
(* C16  Stack discipline.  When a call of handle returns without error, the *)
(* current frame is the frame that was current when it was called and the   *)
(* active stack holds what it held then.                                    *)
(***************************************************************************)
C16_StackDiscipline ==
    [][(phase = "compile" /\ Len(stack') = Len(stack) - 1 /\ program'.error = "none") =>
          /\ program'.frame = called[1].frame
          /\ program'.activeSubroutines = called[1].activeSubroutines]_vars

\* the declaration of an alias of a union has returned to handle(SourceFile):
\* a routine and two frames were entered and left
C16_Witness ==
    /\ Running("SourceFile", "start")
    /\ Top.i = 1
    /\ Len(file) = 1
    /\ Len(program.frames) = 3
    /\ Len(program.subroutines) = 1
    /\ program.subroutines[1].ops # <<>>
    /\ program.frame = called[1].frame
    /\ program.activeSubroutines = <<>>

(***************************************************************************)
(* C17  Operand widths.  After each opcode the scan of                      *)
(* setFinalBinaryAddress skips as many bytes as the emitter wrote for it    *)
(* (4 after Call and the literal opcodes, 8 after Loads), so in every       *)
(* buffer the emitter produces the scan reads no operand byte as an opcode, *)
(* and build() rewrites nothing but the 4 operand bytes of Calls.           *)
(***************************************************************************)
\* the 0-based positions of the opcodes of a buffer as the emitter wrote it
RECURSIVE OpcodesFrom(_, _)
OpcodesFrom(ops, i) ==
    IF i >= Len(ops) THEN {}
    ELSE IF ops[i + 1] = OP.Loads THEN {i} \union OpcodesFrom(ops, i + 9)
    ELSE IF ops[i + 1] \in {OP.Call, OP.NumberLiteral, OP.BigIntLiteral, OP.StringLiteral}
    THEN {i} \union OpcodesFrom(ops, i + 5)
    ELSE {i} \union OpcodesFrom(ops, i + 1)

ScanAgrees(ops) == ScannedFrom(ops, 0, Len(ops)) = OpcodesFrom(ops, 0)

\* what lines 422-423 emit for a symbol: Loads and the symbol's address
LoadsEmitted(sym, junk) == pushSymbolAddress(pushOp(program, OP.Loads, junk), sym, junk)

C17_WidthsAgree ==
    (phase \in {"compile", "compiled"} /\ Ok(program)) =>
        /\ \A k \in 0..Len(program.subroutines) : ScanAgrees(Buffer(program, k))
        /\ \A sym \in AllSymbols : \A junk \in Junk :
              LET Q == LoadsEmitted(sym, junk)
              IN /\ Len(Buffer(Q, Target)) = Len(Buffer(program, Target)) + 9
                 /\ ScanAgrees(Buffer(Q, Target))

C17_OnlyCallOperandsRewritten ==
    [][(phase = "compiled" /\ phase' = "built") =>
          \A k \in 0..Len(program.subroutines) :
              /\ Len(Buffer(program', k)) = Len(Buffer(program, k))
              /\ \A i \in 1..Len(Buffer(program, k)) :
                    Buffer(program', k)[i] # Buffer(program, k)[i] =>
                        \E c \in CallsFrom(Buffer(program, k), 0) : i - 1 \in (c + 1)..(c + 4)]_vars

C17_OperandWidths == []C17_WidthsAgree /\ C17_OnlyCallOperandsRewritten

(***************************************************************************)
(* C18  Storage offsets.  The first payload interned gets offset 5; two     *)
(* payloads get the disjoint ranges [offset, offset + 2 + length); the      *)
(* built image holds, at the operand of every literal opcode, the 2-byte    *)
(* length of the payload and then the payload; findStorage of that offset   *)
(* returns the payload.                                                     *)
(***************************************************************************)
\* the 0-based positions of the literal opcodes of a buffer
LiteralsIn(ops) ==
    {i \in OpcodesFrom(ops, 0) : ops[i + 1] \in {OP.NumberLiteral, OP.BigIntLiteral, OP.StringLiteral}}

Texts == {Text1, Text22}

\* interning s and then t in any state reached
C18_Interning ==
    (phase = "compile" /\ Ok(program)) =>
        \A s \in Texts : \A t \in Texts :
            LET first  == registerStorage(program, s)
                second == registerStorage(first.p, t)
            IN /\ program.storage = <<>> => first.val = 5
               /\ first.val = 5 + StorageBytes(program.storage, Len(program.storage))
               /\ second.val >= first.val + 2 + Len(s)
               /\ findStorage(second.p, first.val) = s
               /\ findStorage(second.p, second.val) = t

\* handle of a literal: the operand is the offset of the text just interned
C18_LiteralOperand ==
    [][(phase = "compile" /\ stack # <<>> /\ Top.node.kind \in DOMAIN LiteralOp) =>
          LET after == Buffer(program', Target)
              at    == Len(Buffer(program, Target))
          IN /\ program'.error = "none"
             /\ Len(after) = at + 5
             /\ after[at + 1] = LiteralOp[Top.node.kind]
             /\ program.storage = <<>> => readUint32(after, at + 1) = 5
             /\ findStorage(program', readUint32(after, at + 1)) = Top.node.text]_vars

C18_Image ==
    phase = "built" =>
        \A k \in 0..Len(program.subroutines) :
            \A i \in LiteralsIn(Buffer(program, k)) :
                LET offset  == readUint32(Buffer(program, k), i + 1)
                    payload == findStorage(program, offset)
                IN /\ payload \in Texts
                   /\ offset + 2 + Len(payload) <= Len(bin)
                   /\ readUint16(bin, offset) = Len(payload)
                   /\ SubSeq(bin, offset + 3, offset + 2 + Len(payload)) = payload

C18_StorageOffsets == []C18_Interning /\ C18_LiteralOperand /\ []C18_Image

\* built from `var A: number = 1` and `type B = true | "22" | A`: two distinct
\* payloads at offsets 5 and 8
C18_Witness ==
    /\ phase = "built"
    /\ program.storage = <<Text1, Text22>>
    /\ LiteralsIn(program.ops) # {}
    /\ Len(program.subroutines) = 2
    /\ LiteralsIn(program.subroutines[2].ops) # {}
    /\ SubSeq(bin, 6, 12) = <<1, 0, 49, 2, 0, 50, 50>>

(***************************************************************************)
(* C19  Variable declaration.  On the first declaration of a variable its   *)
(* routine receives the code of the declared type, or Unknown, and then     *)
(* Return, and nothing else.  With an initializer, after the routine was    *)
(* left, the code of the initializer, then Call with the provisional index  *)
(* of the variable's routine, then Assign are appended to the target that   *)
(* was active before the declaration; without one nothing is appended       *)
(* outside the routine.                                                     *)
(***************************************************************************)
\* ops is the code of one type node, or Unknown where there is none
CodeOfType(ops, type) ==
    IF type = NoNode THEN ops = <<OP.Unknown>>
    ELSE MembersAt(ops, 0, <<type>>, 1, Len(ops))

\* the buffer that was the target when activation j of the stack was called
TargetBefore(j) ==
    IF called[j].activeSubroutines = <<>> THEN 0
    ELSE called[j].activeSubroutines[Len(called[j].activeSubroutines)].idx

\* the registry position of the routine of the variable handled by Top
RoutineOfVariable ==
    program.frames[called[1].frame].symbols[SlotOf(program, called[1].frame, Top.node.name)].routine.idx

\* the activations of first declarations of variables whose routine is active
InVariableRoutine ==
    {j \in 1..Len(stack) : /\ stack[j].node.kind = "VariableDeclaration"
                           /\ stack[j].pc \in {"type", "popSubroutine"}}

C19_RoutineBody ==
    /\ Running("VariableDeclaration", "popSubroutine") =>
          /\ Target = RoutineOfVariable
          /\ CodeOfType(Buffer(program, Target), Top.node.type)
    /\ Running("VariableDeclaration", "Assign") =>
          LET body == Buffer(program, RoutineOfVariable)
              main == Buffer(program, Target)
          IN /\ Target = TargetBefore(1)
             /\ program.activeSubroutines = called[1].activeSubroutines
             /\ Len(body) >= 2
             /\ body[Len(body)] = OP.Return
             /\ CodeOfType(SubSeq(body, 1, Len(body) - 1), Top.node.type)
             /\ \E start \in 0..(Len(main) - 1) :
                   MembersAt(main, start, <<Top.node.initializer>>, 1, Len(main))

C19_Steps ==
    [][/\ (Running("VariableDeclaration", "start") /\ ~Redeclaration) =>
            /\ \A k \in 0..Len(program.subroutines) : Buffer(program', k) = Buffer(program, k)
            /\ Len(program'.subroutines) = Len(program.subroutines) + 1
            /\ Buffer(program', Len(program'.subroutines)) = <<>>
       /\ \A j \in InVariableRoutine :
            Buffer(program', TargetBefore(j)) = Buffer(program, TargetBefore(j))
       /\ Running("VariableDeclaration", "popSubroutine") =>
            /\ program'.error = "none"
            /\ Buffer(program', Target) = Buffer(program, Target) \o <<OP.Return>>
            /\ Top.node.initializer = NoNode => Len(stack') = Len(stack) - 1
       /\ Running("VariableDeclaration", "Assign") =>
            /\ program'.error = "none"
            /\ Buffer(program', Target) =
                   Buffer(program, Target) \o <<OP.Call, RoutineOfVariable - 1, 0, 0, 0, OP.Assign>>
            /\ \A k \in 1..Len(program.subroutines) : Buffer(program', k) = Buffer(program, k)]_vars

C19_VariableDeclaration == []C19_RoutineBody /\ C19_Steps

\* `var A: number = 1` compiled after another routine was registered
C19_Witness ==
    /\ phase = "compiled"
    /\ Len(program.subroutines) = 2
    /\ program.subroutines[2].identifier = "A"
    /\ program.subroutines[2].ops = <<OP.Number, OP.Return>>
    /\ Len(program.ops) >= 11
    /\ SubSeq(program.ops, Len(program.ops) - 10, Len(program.ops)) =
           <<OP.NumberLiteral, 5, 0, 0, 0, OP.Call, 1, 0, 0, 0, OP.Assign>>

(***************************************************************************)
(* C20  A failed popSubroutine.  When popSubroutine fails with 'Routine is  *)
(* empty' it has changed nothing: the current frame is still the frame      *)
(* entered with the routine, the routine is still on top of the active      *)
(* stack and every buffer is as it was.                                     *)
(***************************************************************************)
C20_FailedLeaveChangesNothing ==
    [][(LeavesRoutine /\ EmittedBeforeLeaving = <<>> /\ program'.error = "Routine is empty") =>
          /\ program'.frame = program.frame
          /\ program'.frame = program.entered[Len(program.entered)]
          /\ program'.activeSubroutines = program.activeSubroutines
          /\ program'.frames = program.frames
          /\ program'.ops = program.ops
          /\ program'.subroutines = program.subroutines
          /\ program'.storage = program.storage]_vars

====
